---- MODULE Spec2Model ----
(***************************************************************************)
(* Payment reconciliation of alx_travel_app: the Booking and Payment rows, *)
(* the booking create/update handlers with their overlap validation, the   *)
(* sample-data command, and the initiate, verify and webhook handlers of   *)
(* PaymentViewSet with the e-mail tasks they enqueue.                      *)
(*                                                                         *)
(* Rows follow listings/migrations/0001_initial.py, the schema the views   *)
(* and serializers read and write.  No handler runs inside a transaction:  *)
(* every ORM read and every save() is a step of its own, and a request     *)
(* occupies one web worker from its first step to its response.            *)
(***************************************************************************)
EXTENDS Integers, FiniteSets, Sequences, TLC

\* ------------------------------------------------------------- bounds
MaxBookings == 2        \* Booking rows the store may hold
MaxPayments == 1        \* Payment rows the store may hold
MaxClock    == 1        \* last instant of the wall clock
MaxEmails   == 2        \* cap on each e-mail dispatch counter
MaxPast     == 1        \* days a stored booking's start may lie in the past

\* ------------------------------------------------------------- domains
BookingIds == 1..MaxBookings
Workers    == {1, 2}                        \* web workers serving requests
Listings   == {1}
Customers  == {"alice", "bob"}              \* non-staff users, in id order
Staff      == {"admin"}
Users      == Customers \cup Staff
is_staff(u) == u \in Staff

Today == 2                                  \* timezone.now().date()
NoDate == 0
NoTime == -1                                \* completed_at IS NULL
NoListing == 0
NoRef == 0                                  \* a missing or blank tx_ref
Refs == 1..MaxPayments                      \* booking_reference values in use
UnknownRef == MaxPayments + 1               \* a tx_ref no Payment carries

BookingStatuses == {"pending", "confirmed", "cancelled"}
PaymentStatuses == {"pending", "processing", "completed", "failed", "cancelled"}

NoBooking ==
    [exists |-> FALSE, listing |-> NoListing, user |-> "", start_date |-> NoDate,
     end_date |-> NoDate, status |-> ""]
NoPayment ==
    [exists |-> FALSE, booking_reference |-> NoRef, status |-> "",
     completed_at |-> NoTime, amount |-> 0]

VARIABLES
    bookings,               \* Booking table: id -> row
    payments,               \* Payment table, keyed by its one-to-one booking
    now,                    \* timezone.now()
    reqs,                   \* the request each web worker is serving
    confirmation_emails,    \* send_payment_confirmation_email.delay calls per booking
    failure_emails,         \* send_payment_failure_email.delay calls per booking
    provider_calls,         \* ChapaService.initiate_payment calls made
    response,               \* body of the latest answer a handler gave
    task,                   \* the e-mail task execution the Celery worker holds
    chapa                   \* the last ChapaService call: what it met and returned

vars == <<bookings, payments, now, reqs, confirmation_emails, failure_emails,
          provider_calls, response, task, chapa>>

\* ------------------------------------------------------------- requests
\* Dates offered to the booking endpoints: the sample-data range, a range
\* that starts the day the first ends, a range inside the first, a past
\* range and an empty range.
SeedOffset == 1
SeedWeek   == 7
SeedNights == 3
SeedStart(i) == Today + SeedWeek * i + SeedOffset
ValidDates ==
    { <<SeedStart(0), SeedStart(0) + SeedNights>>,
      <<SeedStart(0) + SeedNights, SeedStart(0) + SeedNights + 1>>,
      <<SeedStart(0) + 1, SeedStart(0) + 2>> }
DatePairs == ValidDates \cup { <<Today - 1, Today + 1>>, <<Today + 3, Today + 3>> }
NoDates == <<NoDate, NoDate>>

\* request.data of a booking create/update: absent fields carry the No* value
BookingData ==
    [listing : Listings \cup {NoListing},
     dates   : DatePairs \cup {NoDates},
     status  : BookingStatuses \cup {""}]

\* Payment webhook status texts as the provider (or anyone) may post them
WebhookStatuses == {"success", "SUCCESS", "failed", "cancelled", "pending", "refunded"}
lower(s) == IF s = "SUCCESS" THEN "success" ELSE s

\* What the gateway answers to GET transaction/verify/<tx_ref>: the status
\* it has recorded for the transaction, an HTTP error, or no answer at all.
ProviderAnswers == {"success", "failed", "cancelled", "pending", "error", "unreachable"}

NoData == [listing |-> NoListing, dates |-> NoDates, status |-> ""]
\* a worker's request in flight: the handler, where it stands, and its locals
\* (payment and bk are the model instances the handler holds in memory)
IdleReq ==
    [op |-> "idle", pc |-> "idle", user |-> "", booking |-> 0, status |-> "",
     payment |-> NoPayment, bk |-> NoBooking, data |-> NoData]

\* no task execution yet
NoTask == [kind |-> "", booking |-> 0, retries |-> 0, attempts |-> 0, state |-> "idle"]

Free(w) == reqs[w].pc = "idle"
Done(w) == [reqs EXCEPT ![w] = IdleReq]

\* no ChapaService call made yet
NoReply == [transport |-> "", status_code |-> 0, body |-> "", decode_error |-> ""]
NoResult == [raised |-> FALSE, success |-> FALSE, data |-> ""]
NoCall == [op |-> "", email |-> "", reply |-> NoReply, result |-> NoResult]

Init ==
    /\ bookings = [b \in BookingIds |-> NoBooking]
    /\ payments = [b \in BookingIds |-> NoPayment]
    /\ now = 0
    /\ reqs = [w \in Workers |-> IdleReq]
    /\ confirmation_emails = [b \in BookingIds |-> 0]
    /\ failure_emails = [b \in BookingIds |-> 0]
    /\ provider_calls = 0
    /\ response = ""
    /\ task = NoTask
    /\ chapa = NoCall

\* ------------------------------------------------------------- clock
Tick ==
    /\ now < MaxClock
    /\ now' = now + 1
    /\ UNCHANGED <<bookings, payments, reqs, task, confirmation_emails,
                   failure_emails, provider_calls, response, chapa>>

\* A day passes between requests.  Dates are kept relative to the current
\* day (Today is date.today() at every instant), so every stored date moves
\* one day towards the past.
DayPasses ==
    /\ \A w \in Workers : Free(w)
    /\ \E b \in BookingIds : bookings[b].exists
    /\ \A b \in BookingIds :
          bookings[b].exists => bookings[b].start_date > Today - MaxPast
    /\ bookings' = [b \in BookingIds |->
          IF bookings[b].exists
          THEN [bookings[b] EXCEPT !.start_date = @ - 1, !.end_date = @ - 1]
          ELSE bookings[b]]
    /\ UNCHANGED <<payments, now, task, reqs, confirmation_emails, failure_emails,
                   provider_calls, response, chapa>>

\* ------------------------------------------------------------- bookings
FreeIds(bs) == {b \in BookingIds : ~bs[b].exists}
NextId(bs) == CHOOSE b \in FreeIds(bs) : \A c \in FreeIds(bs) : b <= c

\* Booking.objects.filter(listing=, start_date__lt=, end_date__gt=, status__in=)
overlapping_bookings(bs, listing, start_date, end_date, instance) ==
    {b \in BookingIds :
        /\ bs[b].exists
        /\ bs[b].listing = listing
        /\ bs[b].start_date < end_date
        /\ bs[b].end_date > start_date
        /\ bs[b].status \in {"pending", "confirmed"}
        /\ b # instance}

\* BookingWithPaymentSerializer.validate without its two date-order checks
BookingValidate_order_unchecked(bs, data, instance) ==
    IF data.dates = NoDates THEN "KeyError"
    ELSE IF data.dates[1] < Today THEN "Cannot book for past dates."
    ELSE IF /\ data.listing # NoListing
            /\ overlapping_bookings(bs, data.listing, data.dates[1], data.dates[2],
                                    instance) # {}
         THEN "This listing is already booked for the selected dates."
    ELSE "ok"

\* BookingWithPaymentSerializer.validate; instance is 0 on create
BookingValidate(bs, data, instance) ==
    IF data.dates = NoDates THEN "KeyError"
    ELSE IF data.dates[1] >= data.dates[2] THEN "End date must be after start date."
    ELSE IF data.dates[2] - data.dates[1] < 1 THEN "Booking must be for at least one night."
    ELSE IF data.dates[1] < Today THEN "Cannot book for past dates."
    ELSE IF /\ data.listing # NoListing
            /\ overlapping_bookings(bs, data.listing, data.dates[1], data.dates[2],
                                    instance) # {}
         THEN "This listing is already booked for the selected dates."
    ELSE "ok"

\* creates that passed validation and have not inserted their row yet
PendingCreates == {w \in Workers : reqs[w].op = "create"}

\* required fields of the ModelSerializer when the request is not partial
RequiredMissing(data) == data.listing = NoListing \/ data.dates = NoDates

\* POST bookings/: is_valid() runs the overlap query, save() inserts later
BookingCreateValidate(w, user, data) ==
    /\ Free(w)
    /\ Cardinality(FreeIds(bookings)) > Cardinality(PendingCreates)
    /\ LET verdict == IF RequiredMissing(data) THEN "This field is required."
                      ELSE BookingValidate(bookings, data, 0)
       IN  IF verdict = "ok"
           THEN /\ reqs' = [reqs EXCEPT ![w] = [IdleReq EXCEPT !.op = "create",
                               !.pc = "save", !.user = user, !.data = data]]
                /\ UNCHANGED response
           ELSE /\ response' = verdict
                /\ UNCHANGED reqs
    /\ UNCHANGED <<bookings, payments, now, task, confirmation_emails, failure_emails,
                   provider_calls, chapa>>

\* perform_create: serializer.save(user=request.user)
BookingCreateSave(w) ==
    /\ reqs[w].op = "create" /\ reqs[w].pc = "save"
    /\ LET id == NextId(bookings)
           d  == reqs[w].data
       IN  bookings' = [bookings EXCEPT ![id] =
               [exists |-> TRUE, listing |-> d.listing, user |-> reqs[w].user,
                start_date |-> d.dates[1], end_date |-> d.dates[2],
                status |-> IF d.status = "" THEN "pending" ELSE d.status]]
    /\ reqs' = Done(w)
    /\ response' = "created"
    /\ UNCHANGED <<payments, now, task, confirmation_emails, failure_emails, provider_calls, chapa>>

\* PUT/PATCH bookings/<id>/: get_object(), is_valid(), perform_update(); the
\* validated fields are set on the instance and the row is written back
BookingUpdate(id, partial, data) ==
    /\ LET verdict == IF ~bookings[id].exists THEN "Not found."
                      ELSE IF ~partial /\ RequiredMissing(data)
                           THEN "This field is required."
                      ELSE BookingValidate(bookings, data, id)
       IN  IF verdict = "ok"
           THEN /\ bookings' = [bookings EXCEPT ![id] =
                     [@ EXCEPT !.listing = IF data.listing = NoListing THEN @
                                           ELSE data.listing,
                               !.start_date = data.dates[1],
                               !.end_date = data.dates[2],
                               !.status = IF data.status = "" THEN @ ELSE data.status]]
                /\ response' = "updated"
           ELSE /\ response' = verdict
                /\ UNCHANGED bookings
    /\ UNCHANGED <<payments, now, task, reqs, confirmation_emails, failure_emails,
                   provider_calls, chapa>>

\* BookingWithPaymentSerializer.get_nights_count
nights_count(b) == IF b.exists THEN b.end_date - b.start_date ELSE 0

\* Listing.price_per_night of the sample listing, in whole currency units
ListingPrice == 350
price_per_night(listing) == ListingPrice

\* Booking.total_amount
total_amount(b) == nights_count(b) * price_per_night(b.listing)

\* DELETE bookings/<id>/.  The router registers views.BookingViewSet, the
\* name the second class statement (line 549) rebinds: that class has no
\* destroy of its own, so ModelViewSet.destroy deletes whatever row
\* get_object() finds; the Payment goes with it (on_delete CASCADE).
destroy(id) ==
    /\ IF bookings[id].exists
       THEN /\ bookings' = [bookings EXCEPT ![id] = NoBooking]
            /\ payments' = [payments EXCEPT ![id] = NoPayment]
            /\ response' = "deleted"
       ELSE /\ response' = "Not found."
            /\ UNCHANGED <<bookings, payments, chapa>>
    /\ UNCHANGED <<now, task, reqs, confirmation_emails, failure_emails, provider_calls, chapa>>

\* manage.py create_sample_data: for each of the first two non-superusers and
\* each listing i, one pending booking of SeedNights nights starting
\* SeedStart(i), unless that user already has a booking of that listing
\* starting that day.  Booking.objects.create runs no serializer validation.
SeedUsers == <<"alice", "bob">>
SeedListings == <<1>>
SeedPlan ==
    [k \in 1..(Len(SeedUsers) * Len(SeedListings)) |->
        [user |-> SeedUsers[((k - 1) \div Len(SeedListings)) + 1],
         i |-> (k - 1) % Len(SeedListings)]]
SeedWanted(bs, k) ==
    ~\E b \in BookingIds :
        /\ bs[b].exists
        /\ bs[b].user = SeedPlan[k].user
        /\ bs[b].listing = SeedListings[SeedPlan[k].i + 1]
        /\ bs[b].start_date = SeedStart(SeedPlan[k].i)
RECURSIVE SeedFrom(_, _)
SeedFrom(bs, k) ==
    IF k > Len(SeedPlan) THEN bs
    ELSE IF SeedWanted(bs, k) /\ FreeIds(bs) # {}
         THEN SeedFrom([bs EXCEPT ![NextId(bs)] =
                  [exists |-> TRUE, listing |-> SeedListings[SeedPlan[k].i + 1],
                   user |-> SeedPlan[k].user,
                   start_date |-> SeedStart(SeedPlan[k].i),
                   end_date |-> SeedStart(SeedPlan[k].i) + SeedNights,
                   status |-> "pending"]], k + 1)
         ELSE SeedFrom(bs, k + 1)
SeedMisses(bs) == Cardinality({k \in 1..Len(SeedPlan) : SeedWanted(bs, k)})

create_sample_data ==
    /\ SeedMisses(bookings) > 0
    /\ Cardinality(FreeIds(bookings)) >= SeedMisses(bookings) + Cardinality(PendingCreates)
    /\ bookings' = SeedFrom(bookings, 1)
    /\ UNCHANGED <<payments, now, task, reqs, confirmation_emails, failure_emails,
                   provider_calls, response, chapa>>

\* ------------------------------------------------------------- payments
PaymentRows == {b \in BookingIds : payments[b].exists}
PaymentByRef(ref) == {b \in PaymentRows : payments[b].booking_reference = ref}
Bump(n) == IF n < MaxEmails THEN n + 1 ELSE n

\* A row of the listings_payment table.  The request code below creates
\* none (initiate returns before its get_or_create), so rows arrive as the
\* table admits them: one per booking, a unique non-blank booking_reference,
\* status at its column default, completed_at NULL, amount the booking's
\* total of the time (what the defaults of get_or_create would store).  cap is how many rows
\* the table is let to hold.  The first definition is the table without the
\* unique index on booking_reference.
PaymentRowInsertInto_reference_not_unique(cap, b, ref) ==
    /\ Cardinality(PaymentRows) < cap
    /\ bookings[b].exists
    /\ ~payments[b].exists
    /\ payments' = [payments EXCEPT ![b] =
           [exists |-> TRUE, booking_reference |-> ref, status |-> "pending",
            completed_at |-> NoTime, amount |-> total_amount(bookings[b])]]
    /\ UNCHANGED <<bookings, now, task, reqs, confirmation_emails, failure_emails,
                   provider_calls, response, chapa>>
PaymentRowInsertInto(cap, b, ref) ==
    /\ Cardinality(PaymentRows) < cap
    /\ bookings[b].exists
    /\ ~payments[b].exists
    /\ PaymentByRef(ref) = {}
    /\ payments' = [payments EXCEPT ![b] =
           [exists |-> TRUE, booking_reference |-> ref, status |-> "pending",
            completed_at |-> NoTime, amount |-> total_amount(bookings[b])]]
    /\ UNCHANGED <<bookings, now, task, reqs, confirmation_emails, failure_emails,
                   provider_calls, response, chapa>>
PaymentRowInsert(b, ref) == PaymentRowInsertInto(MaxPayments, b, ref)

\* Payment.is_successful
is_successful(payment) == payment.status = "completed"

\* validate_booking_id without its already-paid check (line 156-157)
validate_booking_id_unpaid_check_dropped(value, user) ==
    IF ~bookings[value].exists THEN "Booking not found."
    ELSE IF bookings[value].user # user THEN "You can only pay for your own bookings."
    ELSE IF bookings[value].status = "cancelled"
         THEN "Cannot pay for a cancelled booking."
    ELSE IF bookings[value].start_date < Today
         THEN "Cannot pay for bookings with past dates."
    ELSE "ok"

\* validate_booking_id without its past-dates check (line 169-172)
validate_booking_id_past_check_dropped(value, user) ==
    IF ~bookings[value].exists THEN "Booking not found."
    ELSE IF payments[value].exists /\ is_successful(payments[value])
         THEN "This booking has already been paid for."
    ELSE IF bookings[value].user # user THEN "You can only pay for your own bookings."
    ELSE IF bookings[value].status = "cancelled"
         THEN "Cannot pay for a cancelled booking."
    ELSE "ok"

\* PaymentInitiationSerializer.validate_booking_id
validate_booking_id(value, user) ==
    IF ~bookings[value].exists THEN "Booking not found."
    ELSE IF payments[value].exists /\ is_successful(payments[value])
         THEN "This booking has already been paid for."
    ELSE IF bookings[value].user # user THEN "You can only pay for your own bookings."
    ELSE IF bookings[value].status = "cancelled"
         THEN "Cannot pay for a cancelled booking."
    ELSE IF bookings[value].start_date < Today
         THEN "Cannot pay for bookings with past dates."
    ELSE "ok"

\* POST payments/initiate/: the serializer validates, the booking is fetched
\* for the requester, and the method ends there without a Response.  The
\* rest of the initiation (get_or_create, the provider call) sits after the
\* return statements of PaymentViewSet.status and never runs.  The first
\* definition is an initiate that went on to the provider call.
initiate_reaching_provider(user, booking_id) ==
    /\ LET verdict == validate_booking_id(booking_id, user)
           found == bookings[booking_id].exists /\ bookings[booking_id].user = user
           free == {r \in Refs : PaymentByRef(r) = {}}
           created == [exists |-> TRUE, booking_reference |-> CHOOSE r \in free : TRUE,
                       status |-> "pending", completed_at |-> NoTime,
                       amount |-> total_amount(bookings[booking_id])]
       IN  /\ response' = IF verdict # "ok" THEN verdict
                           ELSE IF ~found
                                THEN "Booking not found or you don't have permission to access it."
                           ELSE "no Response returned"
           /\ IF verdict = "ok" /\ found /\ (payments[booking_id].exists \/ free # {})
              THEN /\ payments' = [payments EXCEPT ![booking_id] =
                          IF @.exists THEN [@ EXCEPT !.status = "pending"] ELSE created]
                   /\ provider_calls' = 1
              ELSE UNCHANGED <<payments, provider_calls>>
    /\ UNCHANGED <<bookings, now, task, reqs, confirmation_emails, failure_emails,
                   chapa>>
initiate(user, booking_id) ==
    /\ LET verdict == validate_booking_id(booking_id, user)
           found == bookings[booking_id].exists /\ bookings[booking_id].user = user
       IN  response' = IF verdict # "ok" THEN verdict
                       ELSE IF ~found
                            THEN "Booking not found or you don't have permission to access it."
                       ELSE "no Response returned"
    /\ UNCHANGED <<bookings, payments, now, task, reqs, confirmation_emails, failure_emails,
                   provider_calls, chapa>>

\* ChapaService.verify_payment: success only for HTTP 200 with data.status
\* "success"; every other recorded status and every failure gives False
verify_payment_answering_unreachable(answer) == answer \in {"success", "unreachable"}
verify_payment(answer) == answer = "success"

\* chapa_response.get("error", "Payment verification failed") in verify's
\* else branch: only the except clauses of verify_payment set "error"
verify_error(answer) ==
    IF answer = "unreachable" THEN "Network error occurred"
    ELSE "Payment verification failed"

\* POST payments/verify/, lines 397-420: the reads and the provider's answer
VerifyBegin(w, user, tx_ref, answer) ==
    /\ Free(w)
    /\ LET found == PaymentByRef(tx_ref)
           b == CHOOSE x \in found : TRUE
           denied == ~is_staff(user) /\ bookings[b].user # user
           verdict == IF found = {} THEN "Payment not found."
                      ELSE IF denied THEN "Access denied"
                      ELSE IF ~verify_payment(answer) THEN verify_error(answer)
                      ELSE "ok"
       IN  IF verdict = "ok"
           THEN /\ reqs' = [reqs EXCEPT ![w] =
                     [IdleReq EXCEPT !.op = "verify", !.pc = "apply", !.booking = b,
                         !.status = answer, !.payment = payments[b],
                         !.bk = IF is_staff(user) THEN NoBooking ELSE bookings[b]]]
                /\ UNCHANGED response
           ELSE /\ response' = verdict
                /\ UNCHANGED reqs
    /\ UNCHANGED <<bookings, payments, now, task, confirmation_emails, failure_emails,
                   provider_calls, chapa>>

\* the status branches shared line for line by verify and webhook: the
\* in-memory Payment after them
ApplyStatus(payment, status, at) ==
    IF status = "success"
    THEN [payment EXCEPT !.status = "completed", !.completed_at = at]
    ELSE IF status \in {"failed", "cancelled"}
         THEN [payment EXCEPT !.status = status]
    ELSE payment

\* payment.booking, cached on first access, with status set to confirmed
ConfirmedBooking(cached, b) ==
    [(IF cached.exists THEN cached ELSE bookings[b]) EXCEPT !.status = "confirmed"]

\* whether the branch enqueues its e-mail task
SendsConfirmation(status, old_status) == status = "success" /\ old_status # "completed"
SendsFailure(status, old_status) ==
    status \in {"failed", "cancelled"} /\ old_status \notin {"failed", "cancelled"}

\* lines 421-442 of verify and 509-530 of webhook: payment.booking.save() and
\* the task's .delay(), which raises when the broker cannot be reached; the
\* Payment is then left unsaved and the handler answers fail
Apply(w, broker_up, fail) ==
    LET r == reqs[w]
        b == r.booking
        old_status == r.payment.status
        sends == SendsConfirmation(r.status, old_status) \/ SendsFailure(r.status, old_status)
    IN  /\ bookings' = IF r.status = "success"
                       THEN [bookings EXCEPT ![b] = ConfirmedBooking(r.bk, b)]
                       ELSE bookings
        /\ confirmation_emails' =
             IF SendsConfirmation(r.status, old_status) /\ broker_up
             THEN [confirmation_emails EXCEPT ![b] = Bump(@)]
             ELSE confirmation_emails
        /\ failure_emails' =
             IF SendsFailure(r.status, old_status) /\ broker_up
             THEN [failure_emails EXCEPT ![b] = Bump(@)]
             ELSE failure_emails
        /\ IF sends /\ ~broker_up
           THEN /\ reqs' = Done(w)
                /\ response' = fail
           ELSE /\ reqs' = [reqs EXCEPT ![w].pc = "save",
                                        ![w].payment = ApplyStatus(r.payment, r.status, now),
                                        ![w].bk = NoBooking]
                /\ UNCHANGED response
        /\ UNCHANGED <<payments, now, task, provider_calls, chapa>>

VerifyApply(w, broker_up) ==
    /\ reqs[w].op = "verify" /\ reqs[w].pc = "apply"
    /\ Apply(w, broker_up, "500 Payment verification failed")

\* verify, lines 444-457: payment.save() writes the whole row
VerifySave(w) ==
    /\ reqs[w].op = "verify" /\ reqs[w].pc = "save"
    /\ payments' = [payments EXCEPT ![reqs[w].booking] = reqs[w].payment]
    /\ reqs' = Done(w)
    /\ response' = "verified"
    /\ UNCHANGED <<bookings, now, task, confirmation_emails, failure_emails, provider_calls, chapa>>

\* Response(body, status=status.HTTP_<code>) inside webhook, where line 489
\* has rebound the name status to the posted text: the attribute lookup on a
\* str raises AttributeError, the handler's except clause (540-545) raises it
\* again the same way, and the exception leaves the view.
WebhookError(body, code) == "unhandled AttributeError"

\* POST payments/webhook/ (no authentication), lines 485-507: reads only
WebhookBegin(w, tx_ref, text) ==
    /\ Free(w)
    /\ LET status == lower(text)
           found == PaymentByRef(tx_ref)
           b == CHOOSE x \in found : TRUE
           verdict == IF tx_ref = NoRef THEN WebhookError("Missing tx_ref", 400)
                      ELSE IF found = {} THEN WebhookError("Payment not found", 404)
                      ELSE "ok"
       IN  IF verdict = "ok"
           THEN /\ reqs' = [reqs EXCEPT ![w] =
                     [IdleReq EXCEPT !.op = "webhook",
                         !.pc = IF status \in {"success", "failed", "cancelled"}
                                THEN "apply" ELSE "save",
                         !.booking = b, !.status = status, !.payment = payments[b]]]
                /\ UNCHANGED response
           ELSE /\ response' = verdict
                /\ UNCHANGED reqs
    /\ UNCHANGED <<bookings, payments, now, task, confirmation_emails, failure_emails,
                   provider_calls, chapa>>

WebhookApply(w, broker_up) ==
    /\ reqs[w].op = "webhook" /\ reqs[w].pc = "apply"
    /\ Apply(w, broker_up, WebhookError("Webhook processing failed", 500))

\* webhook, lines 532-538: payment.save() writes the whole row
WebhookSave(w) ==
    /\ reqs[w].op = "webhook" /\ reqs[w].pc = "save"
    /\ payments' = [payments EXCEPT ![reqs[w].booking] = reqs[w].payment]
    /\ reqs' = Done(w)
    /\ response' = "Webhook processed"
    /\ UNCHANGED <<bookings, now, task, confirmation_emails, failure_emails, provider_calls, chapa>>

\* ------------------------------------------------------------- tasks
TaskKinds == {"payment_confirmation", "payment_failure", "booking_confirmation"}
max_retries == 3                \* @shared_task(bind=True, max_retries=3)

\* .delay(...): the worker picks the task up once the previous one has ended
TaskStart(kind, b) ==
    /\ task.state # "queued"
    /\ task' = [kind |-> kind, booking |-> b, retries |-> 0, attempts |-> 0,
                state |-> "queued"]
    /\ UNCHANGED <<bookings, payments, now, reqs, confirmation_emails, failure_emails,
                   provider_calls, response, chapa>>

\* Booking.objects.get / Payment.objects.get at the head of the two payment tasks
TaskFetches(b) == bookings[b].exists /\ payments[b].exists

\* send_payment_confirmation_email: any exception is logged, then retried
\* (self.retry, countdown 60) while self.request.retries < max_retries;
\* after that the task logs once more and returns its failure text
ConfirmationRun(send_ok) ==
    LET fetched == TaskFetches(task.booking)
        sends == IF fetched THEN task.attempts + 1 ELSE task.attempts
    IN  IF fetched /\ send_ok
        THEN [task EXCEPT !.attempts = sends, !.state = "sent"]
        ELSE IF task.retries < max_retries
             THEN [task EXCEPT !.attempts = sends, !.retries = @ + 1]
             ELSE [task EXCEPT !.attempts = sends, !.state = "gave_up"]

\* send_payment_failure_email: any exception is logged and the task returns
FailureRun(send_ok) ==
    LET fetched == TaskFetches(task.booking)
        sends == IF fetched THEN task.attempts + 1 ELSE task.attempts
    IN  IF fetched /\ send_ok
        THEN [task EXCEPT !.attempts = sends, !.state = "sent"]
        ELSE [task EXCEPT !.attempts = sends, !.state = "gave_up"]

\* send_booking_confirmation_email: send_mail with no try around it
BookingConfirmationRun(send_ok) ==
    IF send_ok
    THEN [task EXCEPT !.attempts = @ + 1, !.state = "sent"]
    ELSE [task EXCEPT !.attempts = @ + 1, !.state = "raised"]

\* one execution of the queued task; send_ok is whether send_mail succeeds
TaskRun(send_ok) ==
    /\ task.state = "queued"
    /\ task' = IF task.kind = "payment_confirmation" THEN ConfirmationRun(send_ok)
               ELSE IF task.kind = "payment_failure" THEN FailureRun(send_ok)
               ELSE BookingConfirmationRun(send_ok)
    /\ UNCHANGED <<bookings, payments, now, reqs, confirmation_emails, failure_emails,
                   provider_calls, response, chapa>>

\* ------------------------------------------------------------- system
\* verify requests served by the workers W, the gateway answering from answers
VerifyHandlersOn(W, refs, answers) ==
    \/ \E w \in W, u \in Users, ref \in refs, a \in answers :
          VerifyBegin(w, u, ref, a)
    \/ \E w \in W, up \in BOOLEAN : VerifyApply(w, up)
    \/ \E w \in W : VerifySave(w)
VerifyHandlers(W, answers) == VerifyHandlersOn(W, Refs \cup {UnknownRef}, answers)

\* webhook posts served by the workers W, carrying a status text from texts
WebhookHandlersOn(W, refs, texts) ==
    \/ \E w \in W, ref \in refs, t \in texts :
          WebhookBegin(w, ref, t)
    \/ \E w \in W, up \in BOOLEAN : WebhookApply(w, up)
    \/ \E w \in W : WebhookSave(w)
WebhookHandlers(W, texts) == WebhookHandlersOn(W, Refs \cup {UnknownRef, NoRef}, texts)

\* PATCH bookings/<id>/ with the sample dates and a status, no listing
StatusEdits ==
    {d \in BookingData : /\ d.listing = NoListing
                         /\ d.dates = <<SeedStart(0), SeedStart(0) + SeedNights>>
                         /\ d.status # ""}

\* PATCH bookings/<id>/ sending the booking's stored dates and a status
StatusEdit(id, st) ==
    [listing |-> NoListing,
     dates |-> <<bookings[id].start_date, bookings[id].end_date>>,
     status |-> st]

\* The payment lifecycle, one request at a time: sample bookings, status
\* edits, payment rows, initiate, verify and webhook, the clock.
Next ==
    \/ Tick
    \/ create_sample_data
    \/ \E id \in BookingIds, d \in StatusEdits : BookingUpdate(id, TRUE, d)
    \/ \E b \in BookingIds, ref \in Refs : PaymentRowInsert(b, ref)
    \/ \E u \in Users, b \in BookingIds : initiate(u, b)
    \/ VerifyHandlers({1}, ProviderAnswers)
    \/ WebhookHandlers({1}, WebhookStatuses)

\* Verify calls on one worker and webhook deliveries on the other, all
\* reporting success, in every interleaving.
RaceNext ==
    \/ create_sample_data
    \/ \E b \in BookingIds, ref \in Refs : PaymentRowInsert(b, ref)
    \/ VerifyHandlers({1}, {"success"})
    \/ WebhookHandlers({2}, {"success", "SUCCESS"})

\* Initiate and verify requests, one at a time, against bookings of every
\* status and whatever the gateway answers.
InitiateNext ==
    \/ DayPasses
    \/ create_sample_data
    \/ \E id \in BookingIds, st \in BookingStatuses :
          BookingUpdate(id, TRUE, StatusEdit(id, st))
    \/ \E b \in BookingIds, ref \in Refs : PaymentRowInsert(b, ref)
    \/ \E u \in Users, b \in BookingIds : initiate(u, b)
    \/ VerifyHandlers({1}, ProviderAnswers)

\* The booking endpoints and the sample-data command, creates running
\* concurrently on every worker.
BookingNext ==
    \/ create_sample_data
    \/ \E w \in Workers, u \in Customers, d \in BookingData : BookingCreateValidate(w, u, d)
    \/ \E w \in Workers : BookingCreateSave(w)
    \/ \E id \in BookingIds, partial \in BOOLEAN, d \in BookingData :
          BookingUpdate(id, partial, d)
    \/ \E id \in BookingIds : destroy(id)

\* Bookings created, edited and deleted one request at a time, the status
\* left to its default.
PlainData == {d \in BookingData : d.status = ""}
AmountNext ==
    \/ \E u \in Customers, d \in PlainData : BookingCreateValidate(1, u, d)
    \/ BookingCreateSave(1)
    \/ \E id \in BookingIds, partial \in BOOLEAN, d \in PlainData :
          BookingUpdate(id, partial, d)
    \/ \E id \in BookingIds : destroy(id)

\* The e-mail tasks run by the Celery worker against whatever rows the
\* store holds when they run, the mail transport failing at will.
TaskNext ==
    \/ create_sample_data
    \/ \E b \in BookingIds, ref \in Refs : PaymentRowInsert(b, ref)
    \/ \E id \in BookingIds : destroy(id)
    \/ \E kind \in TaskKinds, b \in BookingIds : TaskStart(kind, b)
    \/ \E send_ok \in BOOLEAN : TaskRun(send_ok)

Spec == Init /\ [][Next]_vars
SpecTasks == Init /\ [][TaskNext]_vars
SpecAmounts == Init /\ [][AmountNext]_vars
SpecRace == Init /\ [][RaceNext]_vars
SpecInitiate == Init /\ [][InitiateNext]_vars
SpecBookings == Init /\ [][BookingNext]_vars

\* ------------------------------------------------------------- provider client
\* What a call of requests.post / requests.get meets: the transport fails or
\* delivers an HTTP status and a body.  Bodies: "success" is a JSON object
\* with status success and data.status success, "failed" one with status
\* success and data.status failed, "rejected" one with status failed, a
\* message and errors, "list" is JSON that is not an object and "html" is
\* no JSON at all.  decode_error is the class response.json() raises on
\* "html": json.JSONDecodeError, or the one of requests, which is a
\* RequestException as well.
Transports == {"ok", "down"}
StatusCodes == {200, 400, 500}
Bodies == {"success", "failed", "rejected", "list", "html"}
DecodeErrors == {"json", "requests"}
Replies == [transport : Transports, status_code : StatusCodes, body : Bodies,
            decode_error : DecodeErrors]
Emails == {"valid", "blank"}

\* the classes an exception is an instance of
ValueError == {"ValueError", "Exception"}
ConnectionError == {"RequestException", "Exception"}
AttributeError == {"AttributeError", "Exception"}
JSONDecodeError(decode_error) ==
    IF decode_error = "requests"
    THEN {"JSONDecodeError", "RequestException", "ValueError", "Exception"}
    ELSE {"JSONDecodeError", "ValueError", "Exception"}

Return(success, data) == [raised |-> FALSE, success |-> success, data |-> data]
\* an exception meets the except clauses in their order; one that none of
\* them names leaves the method
Except(classes, handlers) ==
    LET hits == {i \in 1..Len(handlers) : handlers[i].class \in classes}
    IN  IF hits = {} THEN [raised |-> TRUE, success |-> FALSE, data |-> ""]
        ELSE LET i == CHOOSE j \in hits : \A k \in hits : j <= k
             IN  Return(FALSE, handlers[i].error)

initiate_handlers ==
    << [class |-> "ValueError", error |-> "Validation error"],
       [class |-> "RequestException", error |-> "Network error occurred"],
       [class |-> "Exception", error |-> "An unexpected error occurred"] >>
verify_handlers_network_only ==
    << [class |-> "RequestException", error |-> "Network error occurred"] >>
verify_handlers ==
    << [class |-> "RequestException", error |-> "Network error occurred"],
       [class |-> "JSONDecodeError", error |-> "Invalid response from payment provider"],
       [class |-> "Exception", error |-> "An unexpected error occurred"] >>

\* _validate_email raises ValueError on a blank address
ChapaService_initiate_payment(email, reply) ==
    IF email = "blank" THEN Except(ValueError, initiate_handlers)
    ELSE IF reply.transport = "down" THEN Except(ConnectionError, initiate_handlers)
    ELSE IF reply.body = "html"
         THEN Except(JSONDecodeError(reply.decode_error),
                 << [class |-> "JSONDecodeError",
                     error |-> "Invalid response from payment provider"] >>
                 \o initiate_handlers)
    ELSE IF reply.body = "list" THEN Except(AttributeError, initiate_handlers)
    ELSE IF reply.status_code = 200 /\ reply.body \in {"success", "failed"}
         THEN Return(TRUE, "response_data")
    ELSE Return(FALSE, IF reply.body = "rejected" THEN "message" ELSE "Unknown error")

ChapaService_verify_payment(reply) ==
    IF reply.transport = "down" THEN Except(ConnectionError, verify_handlers)
    ELSE IF reply.body = "html"
         THEN Except(JSONDecodeError(reply.decode_error), verify_handlers)
    ELSE IF reply.status_code = 200
         THEN IF reply.body = "list" THEN Except(AttributeError, verify_handlers)
              ELSE Return(reply.body = "success", "response_data")
    ELSE Return(FALSE, "response_data")

InitiatePaymentCall(email, reply) ==
    /\ chapa' = [op |-> "initiate_payment", email |-> email, reply |-> reply,
                 result |-> ChapaService_initiate_payment(email, reply)]
    /\ UNCHANGED <<bookings, payments, now, reqs, confirmation_emails,
                   failure_emails, provider_calls, response, task>>
VerifyPaymentCall(reply) ==
    /\ chapa' = [op |-> "verify_payment", email |-> "", reply |-> reply,
                 result |-> ChapaService_verify_payment(reply)]
    /\ UNCHANGED <<bookings, payments, now, reqs, confirmation_emails,
                   failure_emails, provider_calls, response, task>>

ClientNext ==
    \/ \E email \in Emails, reply \in Replies : InitiatePaymentCall(email, reply)
    \/ \E reply \in Replies : VerifyPaymentCall(reply)
SpecClient == Init /\ [][ClientNext]_vars

\* ------------------------------------------------------------- references
\* Every booking may hold its Payment; the references come from a pool as
\* large as the table.  Verify on one worker, webhook on the other.
RefPool == 1..MaxBookings
RefNext ==
    \/ create_sample_data
    \/ \E b \in BookingIds, ref \in RefPool : PaymentRowInsertInto(MaxBookings, b, ref)
    \/ \E u \in Customers, b \in BookingIds : initiate(u, b)
    \/ VerifyHandlersOn({1}, RefPool, {"success", "failed"})
    \/ WebhookHandlersOn({2}, RefPool, {"success"})
SpecRefs == Init /\ [][RefNext]_vars

\* ------------------------------------------------------------- after payment
\* One Payment through verify, webhook deliveries of either outcome and
\* further initiate requests of the customers, one request at a time.
PaidNext ==
    \/ create_sample_data
    \/ \E b \in BookingIds, ref \in Refs : PaymentRowInsert(b, ref)
    \/ \E u \in Customers, b \in BookingIds : initiate(u, b)
    \/ VerifyHandlersOn({1}, Refs, {"success"})
    \/ WebhookHandlersOn({1}, Refs, {"success", "failed"})
SpecPaid == Init /\ [][PaidNext]_vars

\* ------------------------------------------------------------- amounts sent
\* amount=booking.total_amount of the provider call in the initiation body
amount_sent(b) == total_amount(bookings[b])

\* Bookings whose dates are edited around the creation of their Payment and
\* the customers' initiate requests.
DateEdits == {d \in PlainData : d.listing = NoListing /\ d.dates # NoDates}
ResendNext ==
    \/ create_sample_data
    \/ \E id \in BookingIds, d \in DateEdits : BookingUpdate(id, TRUE, d)
    \/ \E b \in BookingIds, ref \in Refs : PaymentRowInsert(b, ref)
    \/ \E u \in Customers, b \in BookingIds : initiate(u, b)
SpecResend == Init /\ [][ResendNext]_vars

\* ------------------------------------------------------------- reconciliation
\* management command check_payment_status.  chapa_status is data.status of
\* a verification that ChapaService.verify_payment accepted, lower-cased.
chapa_status(answer) == lower(answer)

\* update_payment_status: the Payment it saves
update_payment_status(payment, status, at) ==
    IF status = "success"
    THEN [payment EXCEPT !.status = "completed", !.completed_at = at]
    ELSE IF status \in {"failed", "cancelled"}
         THEN [payment EXCEPT !.status = status]
    ELSE IF status = "pending" /\ payment.status = "pending"
         THEN [payment EXCEPT !.status = "processing"]
    ELSE payment
\* update_payment_status: the Booking row after it
update_booking_status(booking, status) ==
    IF status = "success" THEN [booking EXCEPT !.status = "confirmed"] ELSE booking

\* whether the command goes on to update_payment_status for the Payment of b
Mismatch(b, answer, dry_run) ==
    /\ verify_payment(answer)
    /\ chapa_status(answer) # lower(payments[b].status)
    /\ ~dry_run

\* check_payment_status --tx-ref <tx_ref> [--dry-run]
check_specific_payment(tx_ref, answer, dry_run) ==
    /\ \A w \in Workers : Free(w)
    /\ LET found == PaymentByRef(tx_ref)
           b == CHOOSE x \in found : TRUE
       IN  IF found = {}
           THEN /\ response' = "Payment with tx_ref not found"
                /\ UNCHANGED <<bookings, payments>>
           ELSE IF ~verify_payment(answer)
           THEN /\ response' = "Chapa verification failed"
                /\ UNCHANGED <<bookings, payments>>
           ELSE IF chapa_status(answer) = lower(payments[b].status)
           THEN /\ response' = "Status is in sync"
                /\ UNCHANGED <<bookings, payments>>
           ELSE IF dry_run
           THEN /\ response' = "Would update"
                /\ UNCHANGED <<bookings, payments>>
           ELSE /\ payments' = [payments EXCEPT ![b] =
                       update_payment_status(@, chapa_status(answer), now)]
                /\ bookings' = [bookings EXCEPT ![b] =
                       update_booking_status(@, chapa_status(answer))]
                /\ response' = "Status changed"
    /\ UNCHANGED <<now, task, reqs, confirmation_emails, failure_emails,
                   provider_calls, chapa>>

\* check_payment_status [--dry-run]: every Payment of the last 24 hours (the
\* clock of the model spans less), each verified with the gateway
check_recent_payments(answers, dry_run) ==
    /\ \A w \in Workers : Free(w)
    /\ PaymentRows # {}
    /\ payments' = [b \in BookingIds |->
          IF payments[b].exists /\ Mismatch(b, answers[b], dry_run)
          THEN update_payment_status(payments[b], chapa_status(answers[b]), now)
          ELSE payments[b]]
    /\ bookings' = [b \in BookingIds |->
          IF payments[b].exists /\ Mismatch(b, answers[b], dry_run)
          THEN update_booking_status(bookings[b], chapa_status(answers[b]))
          ELSE bookings[b]]
    /\ response' = "checked"
    /\ UNCHANGED <<now, task, reqs, confirmation_emails, failure_emails,
                   provider_calls, chapa>>

\* The command run between webhook deliveries and status edits.
ReconcileNext ==
    \/ Tick
    \/ create_sample_data
    \/ \E id \in BookingIds : BookingUpdate(id, TRUE, StatusEdit(id, "cancelled"))
    \/ \E b \in BookingIds, ref \in Refs : PaymentRowInsert(b, ref)
    \/ WebhookHandlers({1}, {"success", "failed", "cancelled"})
    \/ \E ref \in Refs \cup {UnknownRef}, a \in ProviderAnswers, dry \in BOOLEAN :
          check_specific_payment(ref, a, dry)
    \/ \E answers \in [BookingIds -> ProviderAnswers], dry \in BOOLEAN :
          check_recent_payments(answers, dry)
SpecReconcile == Init /\ [][ReconcileNext]_vars

\* ------------------------------------------------------------- claims
Terminal == {"completed", "failed", "cancelled"}
Quiet == \A w \in Workers : Free(w)
\* worker w takes a step of the verify or webhook request it is serving
Steps(w) == reqs[w].op \in {"verify", "webhook"} /\ reqs'[w] # reqs[w]

\* C1: a provider success applied to a Payment that a first success has
\* already completed (Booking confirmed) dispatches no further confirmation
\* e-mail and leaves the stored Payment (status, completed_at) and the
\* Booking's status as they were.
C1_SecondSuccessChangesNothing ==
    [][\A w \in Workers :
         LET b == reqs[w].booking IN
         (/\ Steps(w)
          /\ reqs[w].status = "success"
          /\ reqs[w].payment.status = "completed"
          /\ payments[b].status = "completed"
          /\ bookings[b].status = "confirmed")
         => /\ payments'[b] = payments[b]
            /\ bookings'[b].status = bookings[b].status
            /\ confirmation_emails'[b] = confirmation_emails[b]]_vars

\* C2: a Payment whose status is completed, failed or cancelled keeps that
\* status in every later step.
C2_TerminalStatusKept ==
    [][\A b \in BookingIds :
         (payments[b].exists /\ payments[b].status \in Terminal)
         => payments'[b].status = payments[b].status]_vars

\* C3: with no request in flight, a Booking is confirmed exactly when it has
\* a Payment whose status is completed.
C3_ConfirmedIffCompleted ==
    Quiet =>
      \A b \in BookingIds :
         bookings[b].exists =>
            ((bookings[b].status = "confirmed")
               <=> (payments[b].exists /\ payments[b].status = "completed"))

\* C4: a verify or webhook request applying a provider success that ends in
\* an error leaves the stored Booking and Payment both as they were or both
\* updated (Booking confirmed and Payment completed).
C4_SuccessAppliedAtomically ==
    [][\A w \in Workers :
         LET b == reqs[w].booking IN
         (/\ Steps(w)
          /\ reqs[w].status = "success"
          /\ reqs[w].pc = "apply"
          /\ reqs'[w] = IdleReq)
         => \/ /\ bookings'[b] = bookings[b]
               /\ payments'[b] = payments[b]
            \/ /\ bookings'[b].status = "confirmed"
               /\ payments'[b].status = "completed"]_vars

\* C5: when every verify call and webhook delivery reports success, at most
\* one payment-confirmation e-mail is dispatched per Payment, however the
\* requests interleave.
C5_OneConfirmationEmail ==
    \A b \in BookingIds : confirmation_emails[b] <= 1

\* C6: an initiate request for a booking whose Payment is completed is
\* answered with the already-paid validation error, calls the provider not
\* at all and leaves every Payment as it was.
C6_PaidBookingRejected ==
    [][\A u \in Users, b \in BookingIds :
         (/\ initiate(u, b)
          /\ bookings[b].exists
          /\ payments[b].exists
          /\ payments[b].status = "completed")
         => /\ response' = "This booking has already been paid for."
            /\ provider_calls' = provider_calls
            /\ payments' = payments]_vars
C6_Witness ==
    /\ response = "This booking has already been paid for."
    /\ \E b \in BookingIds : payments[b].exists /\ payments[b].status = "completed"

\* C7: no two bookings of one listing that are both pending or confirmed
\* have intersecting date ranges.
Active(b) == bookings[b].exists /\ bookings[b].status \in {"pending", "confirmed"}
Intersect(b, c) ==
    bookings[b].start_date < bookings[c].end_date
    /\ bookings[c].start_date < bookings[b].end_date
C7_NoActiveOverlap ==
    \A b, c \in BookingIds :
       (b # c /\ Active(b) /\ Active(c) /\ bookings[b].listing = bookings[c].listing)
       => ~Intersect(b, c)

\* a verify call by a user allowed to see the Payment of tx_ref
Allowed(u, ref) ==
    /\ PaymentByRef(ref) # {}
    /\ \A b \in PaymentByRef(ref) : is_staff(u) \/ bookings[b].user = u

\* C8: a verify call and a webhook for a reference the provider reports as
\* failed or cancelled each end with Payment.status set to that value.
C8_FailureMirrored ==
    [][\A w \in Workers :
         /\ \A u \in Users, ref \in Refs, a \in {"failed", "cancelled"} :
              (VerifyBegin(w, u, ref, a) /\ Allowed(u, ref) /\ Free(w)')
              => \A b \in PaymentByRef(ref) : payments'[b].status = a
         /\ (VerifySave(w) /\ reqs[w].status \in {"failed", "cancelled"})
              => payments'[reqs[w].booking].status = reqs[w].status
         /\ (WebhookSave(w) /\ reqs[w].status \in {"failed", "cancelled"})
              => payments'[reqs[w].booking].status = reqs[w].status]_vars

\* C9: a verify call and a webhook reporting pending for a Payment whose
\* status is pending each end with Payment.status set to processing.
C9_PendingBecomesProcessing ==
    [][\A w \in Workers :
         /\ \A u \in Users, ref \in Refs :
              (/\ VerifyBegin(w, u, ref, "pending") /\ Allowed(u, ref) /\ Free(w)'
               /\ \A b \in PaymentByRef(ref) : payments[b].status = "pending")
              => \A b \in PaymentByRef(ref) : payments'[b].status = "processing"
         /\ (/\ WebhookSave(w) /\ reqs[w].status = "pending"
             /\ reqs[w].payment.status = "pending")
              => payments'[reqs[w].booking].status = "processing"]_vars

\* C10: a webhook whose tx_ref matches no Payment is answered with the
\* not-found error and changes no Payment, no Booking and no e-mail count.
C10_UnknownRefNotFound ==
    [][\A w \in Workers, ref \in Refs \cup {UnknownRef}, t \in WebhookStatuses :
         (WebhookBegin(w, ref, t) /\ PaymentByRef(ref) = {})
         => /\ response' = "Payment not found"
            /\ UNCHANGED <<bookings, payments, confirmation_emails, failure_emails, chapa>>]_vars

\* C11: a webhook delivery carrying a tx_ref that ends because its internal
\* processing raised (here: enqueuing the e-mail task) is answered with the
\* handler's own error response; the exception does not leave the handler.
C11_WebhookAlwaysAnswers ==
    [][\A w \in Workers :
         (/\ reqs[w].op = "webhook"
          /\ \E up \in BOOLEAN : WebhookApply(w, up)
          /\ Free(w)')
         => response' = "Webhook processing failed"]_vars

\* C12: a webhook for a stored Payment whose status text is none of success,
\* failed, cancelled, pending (in any letter case) is rejected at once with
\* a client error and changes no Payment and no Booking.
valid_statuses == {"success", "failed", "cancelled", "pending"}
C12_InvalidStatusRejected ==
    [][\A w \in Workers, ref \in Refs, t \in WebhookStatuses :
         (/\ WebhookBegin(w, ref, t)
          /\ PaymentByRef(ref) # {}
          /\ lower(t) \notin valid_statuses)
         => /\ Free(w)'
            /\ response' = "Invalid status. Must be one of: success, failed, cancelled, pending"
            /\ UNCHANGED <<bookings, payments, chapa>>]_vars

\* C13: a verify call by a permitted user during which the provider is
\* unreachable or answers with an error ends at once with an error response
\* and leaves every Payment, every Booking and both e-mail counts unchanged.
C13_ProviderDownChangesNothing ==
    [][\A w \in Workers, u \in Users, ref \in Refs, a \in {"unreachable", "error"} :
         (VerifyBegin(w, u, ref, a) /\ Allowed(u, ref))
         => /\ Free(w)'
            /\ response' \in {"Network error occurred", "Payment verification failed"}
            /\ UNCHANGED <<bookings, payments, confirmation_emails, failure_emails, chapa>>]_vars
C13_Witness ==
    /\ response = "Network error occurred"
    /\ PaymentRows # {}
    /\ Quiet

\* the guards of initiation: the booking exists, belongs to the requester,
\* has no completed Payment, is not cancelled and does not start in the past
GuardsPass(u, b) ==
    /\ bookings[b].exists
    /\ bookings[b].user = u
    /\ ~(payments[b].exists /\ payments[b].status = "completed")
    /\ bookings[b].status # "cancelled"
    /\ bookings[b].start_date >= Today

\* C14: an initiate request that passes every guard while the provider
\* cannot serve it leaves the booking's Payment as stored and is answered
\* with the 400 error message of a failed initiation.
C14_ProviderFailureAnswered ==
    [][\A u \in Users, b \in BookingIds :
         (initiate(u, b) /\ GuardsPass(u, b))
         => /\ payments'[b] = payments[b]
            /\ response' = "Payment initiation failed"]_vars

\* C15: an initiate request that passes every guard while the provider
\* accepts it calls the provider and leaves the booking with a Payment whose
\* status is processing.
C15_InitiationStartsProcessing ==
    [][\A u \in Users, b \in BookingIds :
         (initiate(u, b) /\ GuardsPass(u, b))
         => /\ provider_calls' = provider_calls + 1
            /\ payments'[b].exists
            /\ payments'[b].status = "processing"]_vars

\* C16: an initiate request whose booking fails a guard is rejected with a
\* validation error, creates or changes no Payment and calls no provider;
\* a request that changes a Payment or calls the provider passes every guard.
Rejections ==
    {"Booking not found.", "This booking has already been paid for.",
     "You can only pay for your own bookings.", "Cannot pay for a cancelled booking.",
     "Cannot pay for bookings with past dates."}
C16_InitiateGuarded ==
    [][\A u \in Users, b \in BookingIds :
         initiate(u, b)
         => /\ ~GuardsPass(u, b)
               => /\ response' \in Rejections
                  /\ payments' = payments
                  /\ provider_calls' = provider_calls
            /\ (payments' # payments \/ provider_calls' # provider_calls)
               => GuardsPass(u, b)]_vars
C16_Witness ==
    /\ response = "Cannot pay for bookings with past dates."
    /\ \E b \in BookingIds : bookings[b].exists /\ bookings[b].start_date < Today

\* C17: a delete request for a Booking whose status is confirmed is refused
\* with an error and the Booking stays stored.
C17_ConfirmedNotDeleted ==
    [][\A id \in BookingIds :
         (destroy(id) /\ bookings[id].exists /\ bookings[id].status = "confirmed")
         => /\ bookings'[id] = bookings[id]
            /\ response' = "Cannot delete a confirmed booking."]_vars

C19_EachEmailAtMostOnce ==
    \A b \in BookingIds :
       /\ confirmation_emails[b] <= 1
       /\ failure_emails[b] <= 1

\* C20: an e-mail task whose sending keeps failing makes a bounded number of
\* send attempts (the payment-confirmation task at most 1 + max_retries),
\* gives up only after it has retried, and ends by logging and returning:
\* no exception leaves the task.
C20_TasksRetryThenGiveUp ==
    /\ task.attempts <= 1 + max_retries
    /\ task.state # "raised"
    /\ task.state = "gave_up" => task.retries >= 1

\* The rows the list and retrieve endpoints serve to a user.  The booking
\* endpoints are served by the BookingViewSet bound last in views.py, whose
\* queryset is Booking.objects.all(); the payment endpoints narrow theirs to
\* the user's own bookings unless the user is staff.
BookingViewSet_get_queryset(user) == {b \in BookingIds : bookings[b].exists}
PaymentViewSet_get_queryset(user) ==
    IF ~is_staff(user) THEN {b \in PaymentRows : bookings[b].user = user}
    ELSE PaymentRows

\* C21: for every non-staff user, listing or retrieving bookings and payments
\* returns only rows whose booking belongs to that user, and a verify request
\* for another user's payment is answered "Access denied" without a provider
\* call and without changing any Payment.
C21_OnlyOwnRows ==
    [][/\ \A u \in Customers :
            /\ \A b \in BookingViewSet_get_queryset(u) : bookings[b].user = u
            /\ \A b \in PaymentViewSet_get_queryset(u) : bookings[b].user = u
       /\ \A w \in Workers, u \in Customers, ref \in Refs, a \in ProviderAnswers :
            (VerifyBegin(w, u, ref, a) /\ PaymentByRef(ref) # {} /\ ~Allowed(u, ref))
            => /\ response' = "Access denied"
               /\ payments' = payments
               /\ provider_calls' = provider_calls
               /\ Free(w)']_vars

\* C22: the provider client's initiate and verify operations never raise on
\* an expected failure: on a network error, a non-200 HTTP status, an
\* unparsable response or a provider-reported validation error each returns
\* success = false together with a payload (an error text of the client, or
\* the provider's own response body).
ExpectedFailure(c) ==
    \/ c.reply.transport = "down"
    \/ c.reply.status_code # 200
    \/ c.reply.body \in {"html", "rejected"}
    \/ c.op = "initiate_payment" /\ c.email = "blank"
C22_ClientNeverRaises ==
    chapa.op # "" =>
       /\ ~chapa.result.raised
       /\ ExpectedFailure(chapa) =>
             /\ ~chapa.result.success
             /\ chapa.result.data # ""
       /\ chapa.reply.transport = "down" /\ chapa.email # "blank"
             => chapa.result.data = "Network error occurred"
C22_Witness ==
    /\ chapa.op = "verify_payment"
    /\ chapa.reply.transport = "ok"
    /\ chapa.reply.body = "html"
    /\ chapa.reply.decode_error = "json"
    /\ chapa.result = Return(FALSE, "Invalid response from payment provider")

C25_TerminalReconcileNoOp ==
    [][/\ \A ref \in Refs, a \in ProviderAnswers, dry \in BOOLEAN :
            check_specific_payment(ref, a, dry) =>
               \A b \in PaymentByRef(ref) :
                  payments[b].status \in Terminal =>
                     payments'[b] = payments[b] /\ bookings'[b] = bookings[b]
       /\ \A answers \in [BookingIds -> ProviderAnswers], dry \in BOOLEAN :
            check_recent_payments(answers, dry) =>
               \A b \in PaymentRows :
                  payments[b].status \in Terminal =>
                     payments'[b] = payments[b] /\ bookings'[b] = bookings[b]]_vars

\* C26: a Payment reaches completed only if the provider has recorded a
\* successful payment for its reference: the step that stores completed is
\* the save of a verify whose provider answer was success, never that of a
\* webhook post, which nobody authenticates and whose status text is the
\* sender's.
C26_CompletedOnlyOnProviderSuccess ==
    [][\A b \in BookingIds :
         (payments'[b].exists /\ payments'[b].status = "completed"
             /\ payments[b].status # "completed")
         => \E w \in Workers :
               /\ VerifySave(w)
               /\ reqs[w].booking = b
               /\ verify_payment(reqs[w].status)]_vars

C29_EnqueuedAfterSave ==
    [][\A b \in BookingIds :
         confirmation_emails'[b] # confirmation_emails[b]
         => payments'[b].exists /\ payments'[b].status = "completed"]_vars

\* C30: a Booking whose status is cancelled is never changed to confirmed by
\* a verify or webhook call for its Payment, even when the Payment was
\* initiated before the cancellation.
C30_CancelledStaysCancelled ==
    [][\A w \in Workers, b \in BookingIds :
         (Steps(w) /\ reqs[w].booking = b /\ bookings[b].status = "cancelled")
         => bookings'[b].status # "confirmed"]_vars

====
